---- MODULE Spec2Model ----
(***************************************************************************)
(* Patient payment analysis app (src/app.py): the upload loop of main, the *)
(* person-under-control extraction and row filter, find_missing_dates, and *)
(* the per-patient / per-modality report of process_data.                  *)
(*                                                                         *)
(* Each part of the pipeline has its own variables and its own             *)
(* specification (SpecLoad, SpecPerson, SpecGap, SpecModality,             *)
(* SpecPatient, SpecSchema); a specification leaves the variables of the   *)
(* other parts at their idle values.                                       *)
(***************************************************************************)
EXTENDS Integers, Sequences, FiniteSets, TLC

VARIABLES
    \* main, lines 187-248: the upload loop
    uploaded_files,   \* the uploader's files, in upload order
    password,         \* whether the password field is non-empty
    file_idx,         \* position of the for loop (line 191)
    all_dfs,          \* the dataframes appended so far (line 230)
    messages,         \* st.error / st.warning / st.header calls, in order
    load_failed,      \* history: positions of the files that did not load
    combined_df,      \* pd.concat(all_dfs) (line 236)
    load_pc,
    \* main lines 238-246 and process_data lines 41-56: person and row filter
    Liquidacion,            \* the combined dataset's settlement identifiers
    person_under_control,
    df_filtered,            \* positions of the rows kept by the filter
    person_out,             \* what process_data rendered
    person_pc,
    \* find_missing_dates, lines 7-35
    df_patient,        \* the patient's rows: Producto and F. Actividad
    missing_dates,     \* the returned list
    gap_pc,
    \* process_data lines 89-140: the report of one modality of one patient
    modality_data,     \* rows: F. Actividad, I. Liquidado, source_file
    money_per_day,     \* line 97: date -> summed amount
    most_common_value, \* lines 100-104
    anomalies,         \* lines 117-127: the entries written, in order
    modality_summary,  \* lines 129-139: days, listing, total
    mod_pc,
    \* process_data lines 61-140: the report of one patient
    patient_rows,      \* the patient's filtered rows as read from the sheet
    patient_data,      \* after lines 66-73
    total_money_patient,
    missing_days,      \* line 80
    modalities,        \* line 87
    modality_reports,  \* one record per modality rendered so far
    pat_pc,
    \* process_data lines 41-56: the checks before the per-patient loop
    df_columns,        \* the combined dataset's column names
    df_rows,           \* per row: does Liquidación contain the target, Paciente
    schema_msgs,       \* st.warning / st.error calls
    schema_sections,   \* number of per-patient sections rendered
    schema_pc

loadVars == <<uploaded_files, password, file_idx, all_dfs, messages,
              load_failed, combined_df, load_pc>>

personVars == <<Liquidacion, person_under_control, df_filtered, person_out,
                person_pc>>

gapVars == <<df_patient, missing_dates, gap_pc>>

modVars == <<modality_data, money_per_day, most_common_value, anomalies,
             modality_summary, mod_pc>>

patVars == <<patient_rows, patient_data, total_money_patient, missing_days, modalities,
             modality_reports, pat_pc>>

schemaVars == <<df_columns, df_rows, schema_msgs, schema_sections, schema_pc>>

vars == <<loadVars, personVars, gapVars, modVars, patVars, schemaVars>>

notLoad == <<personVars, gapVars, modVars, patVars, schemaVars>>
notPerson == <<loadVars, gapVars, modVars, patVars, schemaVars>>
notGap == <<loadVars, personVars, modVars, patVars, schemaVars>>
notMod == <<loadVars, personVars, gapVars, patVars, schemaVars>>
notPat == <<loadVars, personVars, gapVars, modVars, schemaVars>>
notSchema == <<loadVars, personVars, gapVars, modVars, patVars>>

NULL == "NULL"

(***************************************************************************)
(* Sequence helpers                                                        *)
(***************************************************************************)
SeqsUpTo(S, n) == UNION {[1..k -> S] : k \in 0..n}

RECURSIVE Flatten(_)
Flatten(dfs) == IF dfs = <<>> THEN <<>> ELSE Head(dfs) \o Flatten(Tail(dfs))

(***************************************************************************)
(* main: the upload loop (lines 187-248)                                   *)
(***************************************************************************)
MaxFiles == 3
MaxFileRows == 1

Extensions == {"xlsx", "xls"}

\* An uploaded file: its name (stem and extension) and the number of rows of
\* its second sheet.  The stem is the upload position, so names are distinct.
FileOf(i, ext, n) == [name |-> <<i, ext>>, nrows |-> n]

\* line 192: uploaded_file.name.split('.')[-1].lower()
file_extension(f) == f.name[2]

\* pd.read_excel(..., sheet_name=1) when it succeeds: the rows of the sheet
ReadExcel(f) == [k \in 1..f.nrows |-> [origin |-> f.name[1], k |-> k]]

\* line 229: df['source_file'] = uploaded_file.name
TagSourceFile(df, f) ==
    [j \in DOMAIN df |-> [origin |-> df[j].origin, k |-> df[j].k,
                          source_file |-> f.name]]

\* the file field of a message that is about no file
NoFile == <<0, "">>

Msg(kind, f) == [kind |-> kind, file |-> f.name]

CurrentFile == uploaded_files[file_idx]

InLoop == load_pc = "loop" /\ file_idx <= Len(uploaded_files)

\* lines 227-230, then the next iteration
AppendDf(f, extraMsgs) ==
    /\ all_dfs' = Append(all_dfs, TagSourceFile(ReadExcel(f), f))
    /\ messages' = messages \o extraMsgs
    /\ file_idx' = file_idx + 1
    /\ UNCHANGED <<uploaded_files, password, load_failed, combined_df, load_pc>>
    /\ UNCHANGED notLoad

\* a file that is reported and skipped: `continue` (lines 211, 223) or the
\* outer except (lines 232-233); the loop goes on with the next file
SkipFile(f, newMsgs) ==
    /\ messages' = messages \o newMsgs
    /\ load_failed' = load_failed \cup {file_idx}
    /\ file_idx' = file_idx + 1
    /\ UNCHANGED <<uploaded_files, password, all_dfs, combined_df, load_pc>>
    /\ UNCHANGED notLoad

\* An exception propagating out of the whole loop (no handler): the script run
\* ends.  Not what the code does; used as a mutation of OuterExcept.
Uncaught(f, before) ==
    /\ load_pc' = "crashed"
    /\ messages' = messages \o before
    /\ load_failed' = load_failed \cup {file_idx}
    /\ UNCHANGED <<uploaded_files, password, file_idx, all_dfs, combined_df>>
    /\ UNCHANGED notLoad

\* lines 232-233: except Exception as e: st.error(...)
OuterExcept(f, before) == SkipFile(f, before \o <<Msg("processing_error", f)>>)

\* lines 199-208: password given, decryption and the read both succeed
XlsxDecryptRead ==
    /\ InLoop /\ file_extension(CurrentFile) = "xlsx" /\ password
    /\ AppendDf(CurrentFile, <<>>)

\* lines 209-211: msoffcrypto raises DecryptionError
XlsxWrongPassword ==
    /\ InLoop /\ file_extension(CurrentFile) = "xlsx" /\ password
    /\ SkipFile(CurrentFile, <<Msg("incorrect_password", CurrentFile)>>)

\* lines 212-215: any other exception in the inner try (decryption or the read
\* of the decrypted stream); a warning, then the plain read, which succeeds or
\* raises inside the handler and so reaches the outer except
XlsxDecryptFallback ==
    /\ InLoop /\ file_extension(CurrentFile) = "xlsx" /\ password
    /\ \E readOk \in BOOLEAN :
         IF readOk
         THEN AppendDf(CurrentFile, <<Msg("decrypt_fallback", CurrentFile)>>)
         ELSE OuterExcept(CurrentFile, <<Msg("decrypt_fallback", CurrentFile)>>)

\* lines 216-218: no password, plain read
XlsxPlainRead ==
    /\ InLoop /\ file_extension(CurrentFile) = "xlsx" /\ ~password
    /\ \E readOk \in BOOLEAN :
         IF readOk THEN AppendDf(CurrentFile, <<>>)
                   ELSE OuterExcept(CurrentFile, <<>>)

\* lines 220-223: a password with an .xls file
XlsPasswordUnsupported ==
    /\ InLoop /\ file_extension(CurrentFile) = "xls" /\ password
    /\ SkipFile(CurrentFile, <<Msg("xls_password", CurrentFile)>>)

\* lines 224-225: .xls, no password
XlsRead ==
    /\ InLoop /\ file_extension(CurrentFile) = "xls" /\ ~password
    /\ \E readOk \in BOOLEAN :
         IF readOk THEN AppendDf(CurrentFile, <<>>)
                   ELSE OuterExcept(CurrentFile, <<>>)

\* lines 235-248: after the loop
Combine ==
    /\ load_pc = "loop" /\ file_idx > Len(uploaded_files)
    /\ IF all_dfs # <<>>
       THEN /\ combined_df' = Flatten(all_dfs)
            /\ messages' = Append(messages, [kind |-> "report_header", file |-> NoFile])
       ELSE /\ combined_df' = <<>>
            /\ messages' = Append(messages, [kind |-> "no_valid_files", file |-> NoFile])
    /\ load_pc' = "done"
    /\ UNCHANGED <<uploaded_files, password, file_idx, all_dfs, load_failed>>
    /\ UNCHANGED notLoad

LoadIdle ==
    /\ uploaded_files = <<>> /\ password = FALSE /\ file_idx = 1
    /\ all_dfs = <<>> /\ messages = <<>> /\ load_failed = {}
    /\ combined_df = <<>> /\ load_pc = "idle"

PersonIdle ==
    /\ Liquidacion = <<>> /\ person_under_control = <<>> /\ df_filtered = {}
    /\ person_out = "none" /\ person_pc = "idle"

GapIdle == df_patient = <<>> /\ missing_dates = <<>> /\ gap_pc = "idle"

ModIdle ==
    /\ modality_data = <<>> /\ money_per_day = <<>> /\ most_common_value = <<>>
    /\ anomalies = <<>> /\ modality_summary = <<>> /\ mod_pc = "idle"

PatIdle ==
    /\ patient_rows = <<>> /\ patient_data = <<>> /\ total_money_patient = 0
    /\ missing_days = <<>>
    /\ modalities = <<>> /\ modality_reports = <<>> /\ pat_pc = "idle"

SchemaIdle ==
    /\ df_columns = {} /\ df_rows = <<>> /\ schema_msgs = <<>>
    /\ schema_sections = 0 /\ schema_pc = "idle"

LoadInit ==
    /\ PersonIdle /\ GapIdle /\ ModIdle /\ PatIdle /\ SchemaIdle
    /\ \E n \in 1..MaxFiles :
         \E exts \in [1..n -> Extensions], rows \in [1..n -> 0..MaxFileRows] :
            uploaded_files = [i \in 1..n |-> FileOf(i, exts[i], rows[i])]
    /\ password \in BOOLEAN
    /\ file_idx = 1
    /\ all_dfs = <<>>
    /\ messages = <<>>
    /\ load_failed = {}
    /\ combined_df = <<>>
    /\ load_pc = "loop"

LoadNext ==
    \/ XlsxDecryptRead
    \/ XlsxWrongPassword
    \/ XlsxDecryptFallback
    \/ XlsxPlainRead
    \/ XlsPasswordUnsupported
    \/ XlsRead
    \/ Combine

SpecLoad == LoadInit /\ [][LoadNext]_vars

(***************************************************************************)
(* C3                                                                      *)
(***************************************************************************)
RECURSIVE ExpectedRows(_)
\* the tagged rows of the files from position i on that did load
ExpectedRows(i) ==
    IF i > Len(uploaded_files) THEN <<>>
    ELSE (IF i \in load_failed THEN <<>>
          ELSE [k \in 1..uploaded_files[i].nrows |->
                  [origin |-> i, k |-> k, source_file |-> uploaded_files[i].name]])
         \o ExpectedRows(i + 1)

FailureKinds == {"incorrect_password", "xls_password", "processing_error"}

Reported(i) ==
    \E j \in DOMAIN messages :
        messages[j].kind \in FailureKinds /\ messages[j].file = uploaded_files[i].name

ReportGenerated ==
    \E j \in DOMAIN messages : messages[j].kind = "report_header"

\* C3: whatever subset of the files fails to load, the loop visits every file,
\* reports each failing file, and the combined dataset is exactly the rows of
\* the files that loaded, in upload order, each tagged with its own file name;
\* the report is generated whenever at least one file loaded.
C3_PartialFailure ==
    /\ load_pc # "crashed"
    /\ load_pc = "done" =>
        /\ file_idx = Len(uploaded_files) + 1
        /\ \A i \in load_failed : Reported(i)
        /\ \A i \in (1..Len(uploaded_files)) \ load_failed : ~Reported(i)
        /\ combined_df = ExpectedRows(1)
        /\ (load_failed # 1..Len(uploaded_files)) <=> ReportGenerated

\* a run in which an early file failed in the fallback read and a later file
\* loaded with rows
C3_Witness ==
    /\ load_pc = "done"
    /\ \E i \in load_failed : \E j \in (1..Len(uploaded_files)) \ load_failed :
          /\ i < j
          /\ uploaded_files[j].nrows > 0
          /\ \E m \in DOMAIN messages :
                /\ messages[m].kind = "decrypt_fallback"
                /\ messages[m].file = uploaded_files[i].name
    /\ combined_df # <<>>

(***************************************************************************)
(* main lines 238-246 and process_data lines 41-56: the person under       *)
(* control and the row filter.  Strings are sequences of characters.       *)
(***************************************************************************)
MaxStrLen == 3
MaxIds == 2

Alphabet == {"A", ".", "-", " "}

Strs == SeqsUpTo(Alphabet, MaxStrLen)

\* str(None) and str(float('nan')), as Python prints them
NoneStr == <<"N", "o", "n", "e">>
NanStr == <<"n", "a", "n">>

\* a null cell of the column, and person_under_control = None
NullCell == <<"<NA>">>
PersonNone == <<"<None>">>

\* str(x) of a cell (line 241) and Series.astype(str) (line 52)
astype_str(cell) == IF cell = NullCell THEN NanStr ELSE cell

\* str(person_under_control) (line 52)
str_person(p) == IF p = PersonNone THEN NoneStr ELSE p

HyphenPositions(s) == {k \in 1..Len(s) : s[k] = "-"}

Min(S) == CHOOSE x \in S : \A y \in S : x <= y
Max(S) == CHOOSE x \in S : \A y \in S : x >= y

\* re.search(r'-(.*?)$', s).group(1): the search takes the leftmost position
\* at which the pattern can match, the first hyphen; the lazy group then
\* grows until $ matches, the end of the string.
re_search_group(s) == SubSeq(s, Min(HyphenPositions(s)) + 1, Len(s))

RECURSIVE lstrip(_)
lstrip(s) == IF s # <<>> /\ Head(s) = " " THEN lstrip(Tail(s)) ELSE s

RECURSIVE rstrip(_)
rstrip(s) ==
    IF s # <<>> /\ s[Len(s)] = " " THEN rstrip(SubSeq(s, 1, Len(s) - 1)) ELSE s

\* str.strip()
strip(s) == rstrip(lstrip(s))

\* lines 239-243
ExtractPersonValue(column) ==
    IF column = <<>> THEN PersonNone
    ELSE LET s == astype_str(column[1])
         IN  IF HyphenPositions(s) = {} THEN PersonNone
             ELSE strip(re_search_group(s))

\* One character of a regular expression against one character of the text:
\* "." is the wildcard, the other characters of the alphabet are literals.
RegexCharMatches(pc, c) == pc = "." \/ pc = c

RegexMatchesAt(pat, s, i) ==
    /\ i + Len(pat) - 1 <= Len(s)
    /\ \A k \in 1..Len(pat) : RegexCharMatches(pat[k], s[i + k - 1])

\* Series.str.contains(pat, na=False): regex=True is the default, so pat is
\* searched as a regular expression (re.search)
str_contains(s, pat) == \E i \in 1..(Len(s) + 1) : RegexMatchesAt(pat, s, i)

\* line 52: the positions of the rows kept
FilterRows(column, person) ==
    {j \in DOMAIN column : str_contains(astype_str(column[j]), str_person(person))}

\* lines 238-245
ExtractPerson ==
    /\ person_pc = "extract"
    /\ person_under_control' = ExtractPersonValue(Liquidacion)
    /\ person_pc' = "process"
    /\ UNCHANGED <<Liquidacion, df_filtered, person_out>>
    /\ UNCHANGED notPerson

\* process_data lines 41-43: df.empty
PersonEmptySheet ==
    /\ person_pc = "process"
    /\ Liquidacion = <<>>
    /\ person_out' = "warning_empty_sheet"
    /\ person_pc' = "done"
    /\ UNCHANGED <<Liquidacion, person_under_control, df_filtered>>
    /\ UNCHANGED notPerson

\* process_data lines 51-62: the filter, then the warning or the sections
PersonFilter ==
    /\ person_pc = "process"
    /\ Liquidacion # <<>>
    /\ df_filtered' = FilterRows(Liquidacion, person_under_control)
    /\ person_out' = IF df_filtered' = {} THEN "warning_no_data" ELSE "sections"
    /\ person_pc' = "done"
    /\ UNCHANGED <<Liquidacion, person_under_control>>
    /\ UNCHANGED notPerson

PersonInit ==
    /\ LoadIdle /\ GapIdle /\ ModIdle /\ PatIdle /\ SchemaIdle
    /\ Liquidacion \in SeqsUpTo(Strs \cup {NullCell, NoneStr}, MaxIds)
    /\ person_under_control = PersonNone
    /\ df_filtered = {}
    /\ person_out = "none"
    /\ person_pc = "extract"

PersonNext == ExtractPerson \/ PersonEmptySheet \/ PersonFilter

SpecPerson == PersonInit /\ [][PersonNext]_vars

(***************************************************************************)
(* C2, C8                                                                  *)
(***************************************************************************)
AfterLastHyphen(s) == SubSeq(s, Max(HyphenPositions(s)) + 1, Len(s))

\* C2: the person under control is everything after the LAST hyphen of the
\* first settlement identifier, trimmed; with no hyphen the person is null and
\* is not used as a name to filter by (no row is selected by it).
C2_PersonAfterLastHyphen ==
    (person_pc \in {"process", "done"} /\ Liquidacion # <<>>) =>
        LET s == astype_str(Liquidacion[1])
        IN  IF HyphenPositions(s) = {}
            THEN /\ person_under_control = PersonNone
                 /\ person_pc = "done" => person_out = "warning_no_data"
            ELSE person_under_control = strip(AfterLastHyphen(s))

LiteralMatchesAt(pat, s, i) ==
    /\ i + Len(pat) - 1 <= Len(s)
    /\ \A k \in 1..Len(pat) : pat[k] = s[i + k - 1]

IsSubstring(s, pat) == \E i \in 1..(Len(s) + 1) : LiteralMatchesAt(pat, s, i)

\* C8: the rows that contribute to the report are exactly the rows whose
\* settlement identifier contains the target as a literal, case-sensitive
\* substring; when no row matches the outcome is a warning and no section.
C8_LiteralSubstringFilter ==
    (person_pc = "done" /\ Liquidacion # <<>>) =>
        /\ df_filtered =
             {j \in DOMAIN Liquidacion :
                IsSubstring(astype_str(Liquidacion[j]), str_person(person_under_control))}
        /\ (df_filtered = {}) <=> (person_out = "warning_no_data")

(***************************************************************************)
(* Dates.  A value of the F. Actividad column is a pandas Timestamp: a     *)
(* calendar day and a time of day.  It is modelled as the integer          *)
(* day * TicksPerDay + tick, with TicksPerDay instants in a day; NaT is    *)
(* the null timestamp.                                                     *)
(***************************************************************************)
TicksPerDay == 2
MaxDay == 2
NaT == -1

Timestamps == 0..((MaxDay + 1) * TicksPerDay - 1)

Timestamp(day, tick) == day * TicksPerDay + tick

\* the calendar day of a timestamp
DayOf(ts) == ts \div TicksPerDay

\* date.strftime('%d-%m-%y'): the calendar day, the time of day is not
\* printed.  The printed text is identified with the day's ordinal (one text
\* per day within a century).
strftime(ts) == DayOf(ts)

\* the order sort_values(by='F. Actividad') gives: ascending, NaT last
DateLeq(a, b) == b = NaT \/ (a # NaT /\ a <= b)

IsSortedByDate(rows) ==
    \A i \in 1..(Len(rows) - 1) : DateLeq(rows[i].F_Actividad, rows[i + 1].F_Actividad)

RECURSIVE SetToSortedSeq(_)
\* the elements of a finite set of integers, ascending
SetToSortedSeq(S) ==
    IF S = {} THEN <<>> ELSE <<Min(S)>> \o SetToSortedSeq(S \ {Min(S)})

(***************************************************************************)
(* find_missing_dates (lines 7-35)                                         *)
(***************************************************************************)
MaxGapRows == 3

Productos == {"INGRESO NO QUIR.", "ingreso no quirurgico", "CONSULTA", NULL}

\* line 11: astype(str).str.contains('INGRESO NO QUIR.', case=False, na=False).
\* The pattern is a regular expression searched without regard to case; its
\* final "." matches any character.  Of the product names of the model it is
\* found in these:
IngresoNoQuirMatches == {"INGRESO NO QUIR.", "ingreso no quirurgico"}

ContainsIngresoNoQuir(producto) == producto \in IngresoNoQuirMatches

\* line 11
IngresoNoQuirRows(df) == SelectSeq(df, LAMBDA r : ContainsIngresoNoQuir(r.Producto))

\* lines 17-20: the distinct non-null timestamps
PresentDates(rows) == {rows[i].F_Actividad : i \in DOMAIN rows} \ {NaT}

\* line 30: pd.date_range(start, end, freq='D'): start, start + 1 day, ...,
\* while not after end; every element keeps the time of day of start
date_range(start, end) ==
    [k \in 1..((end - start) \div TicksPerDay + 1) |-> start + (k - 1) * TicksPerDay]

\* the membership test of line 33: `date not in present_dates` compares
\* timestamps
NotPresent(date, present) == date \notin present

RECURSIVE MapStrftime(_)
MapStrftime(dates) ==
    IF dates = <<>> THEN <<>> ELSE <<strftime(Head(dates))>> \o MapStrftime(Tail(dates))

\* lines 11-35
find_missing_dates(df) ==
    LET rows == IngresoNoQuirRows(df)
        present == PresentDates(rows)
    IN  IF rows = <<>> THEN <<>>
        ELSE IF Cardinality(present) < 2 THEN <<>>
        ELSE LET continuous_range == date_range(Min(present), Max(present))
             IN  MapStrftime(SelectSeq(continuous_range,
                                       LAMBDA d : NotPresent(d, present)))

FindMissingDates ==
    /\ gap_pc = "call"
    /\ missing_dates' = find_missing_dates(df_patient)
    /\ gap_pc' = "done"
    /\ UNCHANGED df_patient
    /\ UNCHANGED notGap

GapRows == [Producto : Productos, F_Actividad : Timestamps \cup {NaT}]

GapInit ==
    /\ LoadIdle /\ PersonIdle /\ ModIdle /\ PatIdle /\ SchemaIdle
    /\ df_patient \in {df \in SeqsUpTo(GapRows, MaxGapRows) : IsSortedByDate(df)}
    /\ missing_dates = <<>>
    /\ gap_pc = "call"

GapNext == FindMissingDates

SpecGap == GapInit /\ [][GapNext]_vars

(***************************************************************************)
(* C1                                                                      *)
(***************************************************************************)
\* the calendar days on which the patient has a row of the category
PresentDays == {DayOf(ts) : ts \in PresentDates(IngresoNoQuirRows(df_patient))}

\* C1: when the rows of the category cover at least 2 distinct calendar days,
\* the result is exactly the days of [earliest, latest] with no row of the
\* category, each once, ascending; several timestamps on one calendar day
\* count as one present day.
C1_MissingDaysExact ==
    (gap_pc = "done" /\ Cardinality(PresentDays) >= 2) =>
        missing_dates =
            SetToSortedSeq((Min(PresentDays)..Max(PresentDays)) \ PresentDays)

(***************************************************************************)
(* process_data lines 89-140: the report of one modality of one patient.   *)
(* modality_data holds the patient's rows of the modality with a numeric   *)
(* amount, sorted by date (lines 70, 73, 91, 94).  Amounts are integers    *)
(* (tenths of a euro).                                                     *)
(***************************************************************************)
MaxModRows == 3
MaxModStamp == 3

\* the timestamps the rows of the modality are drawn from
ModTimestamps == 0..MaxModStamp

Amounts == {10, 20}
Sources == {"a.xlsx", "b.xlsx"}

RECURSIVE SumAmounts(_)
\* Series.sum() of the I. Liquidado column
SumAmounts(rows) ==
    IF rows = <<>> THEN 0 ELSE Head(rows).I_Liquidado + SumAmounts(Tail(rows))

RowsOfDate(rows, d) == SelectSeq(rows, LAMBDA r : r.F_Actividad = d)

\* line 97: groupby('F. Actividad')['I. Liquidado'].sum(); the groups are the
\* distinct non-null values of the column (groupby drops null keys)
MoneyPerDay(rows) ==
    [d \in PresentDates(rows) |-> SumAmounts(RowsOfDate(rows, d))]

\* line 102: value_counts(): how many dates have the amount v
ValueCount(mpd, v) == Cardinality({d \in DOMAIN mpd : mpd[d] = v})

\* line 104: value_counts().idxmax(): an amount with the largest count.  Which
\* one of several tied amounts comes first in value_counts() is not fixed by
\* the code (it depends on the order pandas leaves ties in), so every tied
\* amount is a possible result.
ModeCandidates(mpd) ==
    {v \in {mpd[d] : d \in DOMAIN mpd} :
        \A w \in {mpd[d] : d \in DOMAIN mpd} : ValueCount(mpd, v) >= ValueCount(mpd, w)}

\* a comparison that flags only the amounts above the most common one; not
\* what the code does
WeirdDatesAboveOnly(mpd, mcv) ==
    IF mcv = <<>> THEN {} ELSE {d \in DOMAIN mpd : mpd[d] > mcv[1]}

\* lines 107-109: money_per_day[money_per_day != most_common_value]
WeirdDatesPayments(mpd, mcv) ==
    IF mcv = <<>> THEN {} ELSE {d \in DOMAIN mpd : mpd[d] # mcv[1]}

\* line 111: groupby('F. Actividad')['source_file'].nunique()
SourceFileCount(rows, d) ==
    Cardinality({rows[i].source_file : i \in {j \in DOMAIN rows : rows[j].F_Actividad = d}})

\* a threshold of more than two files; not what the code does
CrossFileDatesOverTwo(rows) ==
    {d \in PresentDates(rows) : SourceFileCount(rows, d) > 2}

\* line 112: cross_file_dates_group[cross_file_dates_group > 1]
CrossFileDates(rows) ==
    {d \in PresentDates(rows) : SourceFileCount(rows, d) > 1}

\* the two lists written one after the other, without the union; not what
\* the code does
AllWeirdDatesConcat(weird, cross) == SetToSortedSeq(weird) \o SetToSortedSeq(cross)

\* line 115: weird_dates_payments.index.union(cross_file_dates.index).sort_values()
AllWeirdDates(weird, cross) == SetToSortedSeq(weird \cup cross)

\* lines 119-127: one written line per date of all_weird_dates_dt
AnomalyEntry(rows, mpd, date_dt) ==
    [date_dt |-> date_dt,
     date_str |-> strftime(date_dt),
     money |-> mpd[date_dt],
     reason |-> IF date_dt \in CrossFileDates(rows)
                THEN "from multiple files" ELSE "unusual payment"]

AnomalyEntries(rows, mpd, mcv) ==
    LET all_weird_dates_dt ==
            AllWeirdDates(WeirdDatesPayments(mpd, mcv), CrossFileDates(rows))
    IN  [k \in DOMAIN all_weird_dates_dt |-> AnomalyEntry(rows, mpd, all_weird_dates_dt[k])]

\* lines 129-139
ModalitySummary(rows, mpd) ==
    LET keys == SetToSortedSeq(DOMAIN mpd)
    IN  [days_count |-> Cardinality(PresentDates(rows)),
         dates_with_money |->
             [k \in DOMAIN keys |-> [date_str |-> strftime(keys[k]), money |-> mpd[keys[k]]]],
         total_money_modality |-> SumAmounts(rows)]

\* lines 96-139 for one modality
ModalityReport ==
    /\ mod_pc = "report"
    /\ LET mpd == MoneyPerDay(modality_data)
       IN  /\ money_per_day' = mpd
           /\ \E mcv \in (IF DOMAIN mpd = {} THEN {<<>>}
                          ELSE {<<v>> : v \in ModeCandidates(mpd)}) :
                /\ most_common_value' = mcv
                /\ anomalies' = AnomalyEntries(modality_data, mpd, mcv)
           /\ modality_summary' = ModalitySummary(modality_data, mpd)
    /\ mod_pc' = "done"
    /\ UNCHANGED modality_data
    /\ UNCHANGED notMod

ModRows == [F_Actividad : ModTimestamps \cup {NaT}, I_Liquidado : Amounts,
            source_file : Sources]

ModInit ==
    /\ LoadIdle /\ PersonIdle /\ GapIdle /\ PatIdle /\ SchemaIdle
    /\ modality_data \in {df \in SeqsUpTo(ModRows, MaxModRows) : IsSortedByDate(df)}
    /\ money_per_day = <<>>
    /\ most_common_value = <<>>
    /\ anomalies = <<>>
    /\ modality_summary = <<>>
    /\ mod_pc = "report"

ModNext == ModalityReport

SpecModality == ModInit /\ [][ModNext]_vars

(***************************************************************************)
(* C4, C5, C9.  A "date" of a modality is a distinct non-null value of     *)
(* F. Actividad, the key the code groups by.                               *)
(***************************************************************************)
LedgerDates == PresentDates(modality_data)

DailySum(d) == SumAmounts(RowsOfDate(modality_data, d))

IsMultiSource(d) ==
    \E i, j \in DOMAIN modality_data :
        /\ modality_data[i].F_Actividad = d
        /\ modality_data[j].F_Actividad = d
        /\ modality_data[i].source_file # modality_data[j].source_file

AllSingleSource == \A d \in LedgerDates : ~IsMultiSource(d)

AllSumsEqual == \A d, e \in LedgerDates : DailySum(d) = DailySum(e)

\* the ledger is a uniform single-source ledger in which date d alone was
\* given a daily amount different from that of the other dates
IsUniformExcept(d) ==
    /\ AllSingleSource
    /\ \E e \in LedgerDates \ {d} :
          /\ DailySum(d) # DailySum(e)
          /\ \A f \in LedgerDates \ {d} : DailySum(f) = DailySum(e)

OnlyEntryIsUnusual(d) ==
    /\ Len(anomalies) = 1
    /\ anomalies[1].date_dt = d
    /\ anomalies[1].reason = "unusual payment"

ListedAs(d, reason) ==
    \E k \in DOMAIN anomalies :
        anomalies[k].date_dt = d /\ anomalies[k].reason = reason

IsMostFrequentSum(v) ==
    /\ \E d \in LedgerDates : DailySum(d) = v
    /\ \A e \in LedgerDates :
          Cardinality({d \in LedgerDates : DailySum(d) = v})
              >= Cardinality({d \in LedgerDates : DailySum(d) = DailySum(e)})

MaxSchemaRows == 2

\* line 46 (the accents of the column names are left out)
required_columns ==
    {"Liquidacion", "Paciente", "F. Actividad", "Producto", "I. Liquidado", "source_file"}

OtherColumns == {"Observaciones"}

Pacientes == {"P1", "P2"}

\* a report of all the required columns; not what the code does
MissingColumnsAll(columns) == required_columns

\* line 48: list(set(required_columns) - set(df.columns))
MissingColumns(columns) == required_columns \ columns

\* line 52 and line 59: the patients of the rows kept by the filter
FilteredPatients(rows) ==
    {rows[i].Paciente : i \in {j \in DOMAIN rows : rows[j].matches}}

\* lines 41-43
SchemaEmptySheet ==
    /\ schema_pc = "check"
    /\ df_rows = <<>>
    /\ schema_msgs' = <<[kind |-> "warning_empty_sheet", columns |-> {}]>>
    /\ schema_pc' = "done"
    /\ UNCHANGED <<df_columns, df_rows, schema_sections>>
    /\ UNCHANGED notSchema

\* lines 45-49
SchemaMissingColumns ==
    /\ schema_pc = "check"
    /\ df_rows # <<>>
    /\ MissingColumns(df_columns) # {}
    /\ schema_msgs' = <<[kind |-> "error_missing_columns",
                         columns |-> MissingColumns(df_columns)]>>
    /\ schema_pc' = "done"
    /\ UNCHANGED <<df_columns, df_rows, schema_sections>>
    /\ UNCHANGED notSchema

\* lines 51-56
SchemaNoData ==
    /\ schema_pc = "check"
    /\ df_rows # <<>>
    /\ MissingColumns(df_columns) = {}
    /\ FilteredPatients(df_rows) = {}
    /\ schema_msgs' = <<[kind |-> "warning_no_data", columns |-> {}]>>
    /\ schema_pc' = "done"
    /\ UNCHANGED <<df_columns, df_rows, schema_sections>>
    /\ UNCHANGED notSchema

\* lines 58-62: one section per patient of the filtered rows
SchemaSections ==
    /\ schema_pc = "check"
    /\ df_rows # <<>>
    /\ MissingColumns(df_columns) = {}
    /\ FilteredPatients(df_rows) # {}
    /\ schema_sections' = Cardinality(FilteredPatients(df_rows))
    /\ schema_pc' = "done"
    /\ UNCHANGED <<df_columns, df_rows, schema_msgs>>
    /\ UNCHANGED notSchema

\* the combined dataset always carries source_file (main, line 229)
SchemaInit ==
    /\ LoadIdle /\ PersonIdle /\ GapIdle /\ ModIdle /\ PatIdle
    /\ df_columns \in {cols \in SUBSET (required_columns \cup OtherColumns) :
                          "source_file" \in cols}
    /\ df_rows \in SeqsUpTo([matches : BOOLEAN, Paciente : Pacientes], MaxSchemaRows)
    /\ schema_msgs = <<>>
    /\ schema_sections = 0
    /\ schema_pc = "check"

SchemaNext ==
    \/ SchemaEmptySheet
    \/ SchemaMissingColumns
    \/ SchemaNoData
    \/ SchemaSections

SpecSchema == SchemaInit /\ [][SchemaNext]_vars

(***************************************************************************)
(* C6                                                                      *)
(***************************************************************************)
SomeRequiredColumnMissing == ~(required_columns \subseteq df_columns)

ToldMissingColumns ==
    schema_msgs = <<[kind |-> "error_missing_columns",
                     columns |-> {c \in required_columns : c \notin df_columns}]>>

\* C6 as stated: whenever a required column is missing, no per-patient section
\* is produced and the user is told which columns are missing, for every
\* combined dataset, including one with zero rows.
C6_MissingColumnsAbort_AnyDataset ==
    (schema_pc = "done" /\ SomeRequiredColumnMissing) =>
        /\ schema_sections = 0
        /\ ToldMissingColumns

\* C6 as amended: whenever a required column is missing, no per-patient
\* section is produced; for a dataset with at least one row the user is told
\* exactly which columns are missing, and for a dataset with zero rows the
\* user gets the empty-sheet warning instead.
C6_MissingColumnsAbort ==
    (schema_pc = "done" /\ SomeRequiredColumnMissing) =>
        /\ schema_sections = 0
        /\ IF df_rows # <<>> THEN ToldMissingColumns
           ELSE schema_msgs = <<[kind |-> "warning_empty_sheet", columns |-> {}]>>

\* a dataset with matching rows and two missing columns, aborted
C6_Witness ==
    /\ schema_pc = "done"
    /\ Cardinality(required_columns \ df_columns) = 2
    /\ \E i \in DOMAIN df_rows : df_rows[i].matches
    /\ ToldMissingColumns
    /\ schema_sections = 0

(***************************************************************************)
(* process_data lines 61-140: the report of one patient.  patient_rows are *)
(* the patient's filtered rows as read from the sheets; the I. Liquidado   *)
(* cell is kept as its text (line 69 converts the column with astype(str)).*)
(* pandas 1.x / 2.x behaviour of errors='ignore' is modelled: when a value *)
(* cannot be converted the input is returned unchanged.                    *)
(***************************************************************************)
MaxPatRows == 2
MaxPatStamp == 1
NaN == -1

PatTimestamps == 0..MaxPatStamp

PatProductos == {"INGRESO NO QUIR.", "CONSULTA", NULL}

\* the texts of the I. Liquidado cells after astype(str): a number, a number
\* with a decimal comma, a null cell, a text that is no number
AmountTexts == {"1", "1,5", "nan", "abc"}

\* line 69: .str.replace(',', '.')
str_replace_comma(text) == IF text = "1,5" THEN "1.5" ELSE text

\* the texts pd.to_numeric can convert ("nan" converts to NaN)
IsNumericText(text) == text \in {"1", "1.5", "nan"}

\* the float a text converts to, in tenths
ToFloat(text) ==
    CASE text = "1" -> 10
      [] text = "1.5" -> 15
      [] text = "nan" -> NaN

\* line 69: pd.to_numeric(column, errors='ignore') converts the whole column,
\* or returns it unchanged when one value cannot be converted
ColumnIsNumeric(rows) ==
    \A i \in DOMAIN rows : IsNumericText(str_replace_comma(rows[i].I_Liquidado))

ToNumericRow(r) ==
    [Producto |-> r.Producto, F_Actividad |-> r.F_Actividad,
     I_Liquidado |-> ToFloat(str_replace_comma(r.I_Liquidado)),
     source_file |-> r.source_file]

\* lines 69-70: the converted column, then dropna(subset=['I. Liquidado'])
ToNumericDropNa(rows) ==
    SelectSeq([i \in DOMAIN rows |-> ToNumericRow(rows[i])],
              LAMBDA r : r.I_Liquidado # NaN)

IndexPermutations(n) ==
    {p \in [1..n -> 1..n] : \A i, j \in 1..n : p[i] = p[j] => i = j}

\* line 73: sort_values(by='F. Actividad'): the rows in ascending date order,
\* NaT last; the default sort is not stable, so rows of equal date may come
\* out in any order
SortedByDate(rows) ==
    {s \in {[i \in DOMAIN rows |-> rows[p[i]]] : p \in IndexPermutations(Len(rows))} :
        IsSortedByDate(s)}

RECURSIVE UniqueInOrder(_, _)
\* line 87: Series.unique(): distinct values in order of first appearance
\* (a null Producto is one of them)
UniqueInOrder(values, seen) ==
    IF values = <<>> THEN <<>>
    ELSE IF Head(values) \in seen THEN UniqueInOrder(Tail(values), seen)
    ELSE <<Head(values)>> \o UniqueInOrder(Tail(values), seen \cup {Head(values)})

ProductoColumn(rows) == [i \in DOMAIN rows |-> rows[i].Producto]

\* line 91: patient_data[patient_data['Producto'] == modality]: a comparison
\* with NaN is False for every row, a null Producto included
ModalityData(rows, modality) ==
    SelectSeq(rows, LAMBDA r : modality # NULL /\ r.Producto = modality)

\* lines 63-84: conversion, total, missing days
PatientTotal ==
    /\ pat_pc = "patient"
    /\ ColumnIsNumeric(patient_rows)
    /\ \E sorted \in SortedByDate(ToNumericDropNa(patient_rows)) :
          /\ patient_data' = sorted
          /\ total_money_patient' = SumAmounts(sorted)
          /\ missing_days' = find_missing_dates(sorted)
          /\ modalities' = UniqueInOrder(ProductoColumn(sorted), {})
    /\ pat_pc' = "modalities"
    /\ UNCHANGED <<patient_rows, modality_reports>>
    /\ UNCHANGED notPat

\* lines 69-77 when a cell is no number: the column stays text, no row is
\* dropped, .sum() concatenates the texts and the format `:,.2f` of line 77
\* raises ValueError; nothing catches it
PatientTotalRaises ==
    /\ pat_pc = "patient"
    /\ ~ColumnIsNumeric(patient_rows)
    /\ pat_pc' = "crashed"
    /\ UNCHANGED <<patient_rows, patient_data, total_money_patient, missing_days,
                   modalities, modality_reports>>
    /\ UNCHANGED notPat

\* lines 89-140 for the next modality
PatientModality ==
    /\ pat_pc = "modalities"
    /\ Len(modality_reports) < Len(modalities)
    /\ LET modality == modalities[Len(modality_reports) + 1]
           data == ModalityData(patient_data, modality)
           mpd == MoneyPerDay(data)
       IN  \E mcv \in (IF DOMAIN mpd = {} THEN {<<>>}
                       ELSE {<<v>> : v \in ModeCandidates(mpd)}) :
              modality_reports' = Append(modality_reports,
                  [modality |-> modality,
                   anomalies |-> AnomalyEntries(data, mpd, mcv),
                   summary |-> ModalitySummary(data, mpd)])
    /\ UNCHANGED <<patient_rows, patient_data, total_money_patient, missing_days,
                   modalities, pat_pc>>
    /\ UNCHANGED notPat

\* the end of the loop of line 89
PatientDone ==
    /\ pat_pc = "modalities"
    /\ Len(modality_reports) = Len(modalities)
    /\ pat_pc' = "done"
    /\ UNCHANGED <<patient_rows, patient_data, total_money_patient, missing_days,
                   modalities, modality_reports>>
    /\ UNCHANGED notPat

PatRows == [Producto : PatProductos, F_Actividad : PatTimestamps \cup {NaT},
            I_Liquidado : AmountTexts, source_file : Sources]

\* line 63: a patient of df_filtered has at least one row
PatInit ==
    /\ LoadIdle /\ PersonIdle /\ GapIdle /\ ModIdle /\ SchemaIdle
    /\ patient_rows \in SeqsUpTo(PatRows, MaxPatRows) \ {<<>>}
    /\ patient_data = <<>>
    /\ total_money_patient = 0
    /\ missing_days = <<>>
    /\ modalities = <<>>
    /\ modality_reports = <<>>
    /\ pat_pc = "patient"

PatNext ==
    \/ PatientTotal
    \/ PatientTotalRaises
    \/ PatientModality
    \/ PatientDone

SpecPatient == PatInit /\ [][PatNext]_vars

(***************************************************************************)
(* C7, C10                                                                 *)
(***************************************************************************)
\* a cell that holds a number, written with a decimal point or comma
IsParseableAmount(text) == text \in {"1", "1,5"}

AmountOf(text) == IF text = "1" THEN 10 ELSE 15

RECURSIVE SumParseable(_)
SumParseable(rows) ==
    IF rows = <<>> THEN 0
    ELSE (IF IsParseableAmount(Head(rows).I_Liquidado)
          THEN AmountOf(Head(rows).I_Liquidado) ELSE 0)
         + SumParseable(Tail(rows))

\* C7: the patient's total is the sum of the amounts of exactly the rows
\* whose amount is a parseable number (decimal comma accepted); a null or
\* unparseable amount is left out, does not change how the other amounts are
\* read, and does not abort the report.
C7_TotalOfParseableAmounts ==
    /\ pat_pc # "crashed"
    /\ pat_pc \in {"modalities", "done"} =>
          total_money_patient = SumParseable(patient_rows)

RECURSIVE SumModalityTotals(_)
SumModalityTotals(reports) ==
    IF reports = <<>> THEN 0
    ELSE Head(reports).summary.total_money_modality + SumModalityTotals(Tail(reports))

RECURSIVE SumListing(_)
SumListing(listing) ==
    IF listing = <<>> THEN 0 ELSE Head(listing).money + SumListing(Tail(listing))

\* C10: the per-modality totals of a patient add up to the patient's total,
\* and the amounts of a modality's per-day listing add up to the modality's
\* total, also with rows whose product or activity date is null.
C10_MoneyConserved ==
    pat_pc = "done" =>
        /\ SumModalityTotals(modality_reports) = total_money_patient
        /\ \A k \in DOMAIN modality_reports :
              SumListing(modality_reports[k].summary.dates_with_money)
                  = modality_reports[k].summary.total_money_modality

(***************************************************************************)
(* The whole model: any one part of the pipeline, from its initial state.  *)
(***************************************************************************)
Init == LoadInit \/ PersonInit \/ GapInit \/ ModInit \/ PatInit \/ SchemaInit

Next == LoadNext \/ PersonNext \/ GapNext \/ ModNext \/ PatNext \/ SchemaNext

Spec == Init /\ [][Next]_vars

====
